---- MODULE Spec2Model ----
(***************************************************************************)
(* Model of the rand-unique / rand-sequence crate, instantiated for u8:    *)
(* RandomSequenceBuilder<u8> (src/src/builder.rs) and RandomSequence<u8>   *)
(* (src/src/sequence.rs).  The search find_suitable_prime(T::MAX) is also  *)
(* modelled for u16, u32 and u64, on numbers held as 16-bit limbs.         *)
(***************************************************************************)
EXTENDS Integers, Naturals, Sequences, FiniteSets, TLC

\* ------------------------------------------------------------------------
\* The integer type T = u8
\* ------------------------------------------------------------------------

\* bit width of u8, the narrowest type the crate is instantiated for
W == 8

\* number of values of T (2^W)
Modulus == 2 ^ W

\* T::MAX
T_MAX == Modulus - 1

\* the values of T
T == 0 .. T_MAX

\* the seeds drawn for seed(): 0 .. MaxSeed
MaxSeed == 3

\* mutant of wrapping_add: the addition stops at T::MAX
saturating_add(x, y) == IF x + y > T_MAX THEN T_MAX ELSE x + y

\* x.wrapping_add(y) on T
wrapping_add(x, y) == (x + y) % Modulus

\* mutant of wrapping_sub: the subtraction stops at zero
saturating_sub(x, y) == IF x >= y THEN x - y ELSE 0

\* x.wrapping_sub(y) on T
wrapping_sub(x, y) == (x - y) % Modulus

\* bitwise xor of two naturals
RECURSIVE BitXor(_, _)
BitXor(a, b) ==
    IF a = 0 THEN b
    ELSE IF b = 0 THEN a
    ELSE ((a + b) % 2) + 2 * BitXor(a \div 2, b \div 2)

\* ------------------------------------------------------------------------
\* builder.rs
\* ------------------------------------------------------------------------

\* SEED_NOISE = 6624854654305503467 = 0x5bf03635467908eb, as little-endian bytes
SEED_NOISE == <<235, 8, 121, 70, 53, 54, 240, 91>>

\* `SEED_NOISE as u8`: the truncating cast keeps the low byte
SEED_NOISE_T == SEED_NOISE[1]

\* machine_prime::is_prime, by trial division
is_prime(n) ==
    /\ n >= 2
    /\ \A d \in 2 .. n : (d * d <= n) => (n % d # 0)

\* mutant of search_stops: the primality test is left out
search_stops_untested(number) ==
    \/ ~(number > 3)
    \/ number % 4 = 3

\* the `while number > 3` loop of find_suitable_prime stops at `number`: the
\* loop condition fails, or the candidate is 3 mod 4 and prime (the break)
search_stops(number) ==
    \/ ~(number > 3)
    \/ (number % 4 = 3 /\ is_prime(number))

\* the loop of find_suitable_prime, run to its end from `number`
RECURSIVE search_down(_)
search_down(number) ==
    IF search_stops(number) THEN number ELSE search_down(number - 2)

\* the candidate find_suitable_prime enters its loop with: max itself, or
\* max - 1 when max is even
first_candidate(max) == IF max % 2 = 0 THEN max - 1 ELSE max

\* mutant of find_suitable_prime: no early return for the smallest bounds
find_suitable_prime_no_early_return(max) == search_down(first_candidate(max))

find_suitable_prime(max) ==
    IF max <= 3 THEN max ELSE search_down(first_candidate(max))

\* the prime of impl_seed!(u8, 251)
HARD_CODED_PRIME == 251

\* RandomSequenceBuilder::<u8>::seed(seed); the casts to u8 truncate, so only
\* the low byte of each u64 intermediate is computed
seed(s) ==
    [ seed           |-> wrapping_add(BitXor(s % Modulus, SEED_NOISE_T), SEED_NOISE_T),
      intermediate_a |-> SEED_NOISE_T,
      intermediate_b |-> wrapping_sub((s \div 2) % Modulus, (SEED_NOISE_T + 1) % Modulus),
      prime          |-> HARD_CODED_PRIME,
      max            |-> T_MAX ]

\* find_suitable_prime on every value of T, computed once
suitable_prime == [max \in T |-> find_suitable_prime(max)]

\* mutant of with_max: the prime is searched below the bound the builder had
with_max_stale_prime(self, max) ==
    [self EXCEPT !.max = max, !.prime = suitable_prime[self.max]]

with_max(self, max) ==
    [self EXCEPT !.max = max, !.prime = suitable_prime[max]]

\* number of values of the larger type of impl_residue!(u8, u16)
LargerModulus == Modulus * Modulus

\* mutant of residue: the product is formed in T, where it wraps
residue_in_T(x, prime) == ((x * x) % Modulus) % prime

\* QuadraticResidue::residue: the product is formed in the larger type
residue(x, prime) == (((x * x) % LargerModulus) % prime) % Modulus

\* QuadraticResidue::modulo_add
modulo_add(a, b, max) ==
    IF max = T_MAX THEN wrapping_add(a, b)
    ELSE (((a + b) % LargerModulus) % ((max + 1) % LargerModulus)) % Modulus

\* mutant of permute_qpr: the upper half is not folded to prime - residue
permute_qpr_unfolded(self, x) ==
    IF x >= self.prime /\ self.prime > 1
    THEN IF self.intermediate_b % 2 = 0 /\ x = self.prime THEN self.max
         ELSE IF self.intermediate_b % 2 = 0 /\ x = self.max THEN self.prime
         ELSE x
    ELSE IF x <= 1
    THEN IF self.max > 0 THEN BitXor(x, self.seed % 2) % 2 ELSE 0
    ELSE residue(x, self.prime)

\* mutant of permute_qpr: the 0/1 flip is not masked for max = 0
permute_qpr_unmasked(self, x) ==
    IF x >= self.prime /\ self.prime > 1
    THEN IF self.intermediate_b % 2 = 0 /\ x = self.prime THEN self.max
         ELSE IF self.intermediate_b % 2 = 0 /\ x = self.max THEN self.prime
         ELSE x
    ELSE IF x <= 1
    THEN BitXor(x, self.seed % 2) % 2
    ELSE IF x <= self.prime \div 2
         THEN residue(x, self.prime)
         ELSE self.prime - residue(x, self.prime)

\* mutant of permute_qpr: prime and max are exchanged when intermediate_b is odd
permute_qpr_swaps_on_odd(self, x) ==
    IF x >= self.prime /\ self.prime > 1
    THEN IF self.intermediate_b % 2 = 1 /\ x = self.prime THEN self.max
         ELSE IF self.intermediate_b % 2 = 1 /\ x = self.max THEN self.prime
         ELSE x
    ELSE IF x <= 1
    THEN IF self.max > 0 THEN BitXor(x, self.seed % 2) % 2 ELSE 0
    ELSE IF x <= self.prime \div 2
         THEN residue(x, self.prime)
         ELSE self.prime - residue(x, self.prime)

\* RandomSequenceBuilder::permute_qpr
permute_qpr(self, x) ==
    IF x >= self.prime /\ self.prime > 1
    THEN IF self.intermediate_b % 2 = 0 /\ x = self.prime THEN self.max
         ELSE IF self.intermediate_b % 2 = 0 /\ x = self.max THEN self.prime
         ELSE x
    ELSE IF x <= 1
    THEN IF self.max > 0 THEN BitXor(x, self.seed % 2) % 2 ELSE 0
    ELSE IF x <= self.prime \div 2
         THEN residue(x, self.prime)
         ELSE self.prime - residue(x, self.prime)

\* the start index computed by IntoIterator::into_iter
into_iter_start(self) ==
    IF self.max > 0
    THEN permute_qpr(self, wrapping_add(permute_qpr(self, self.seed), self.intermediate_b))
    ELSE 0

\* ------------------------------------------------------------------------
\* sequence.rs
\* ------------------------------------------------------------------------

n_internal(self, index) ==
    LET actual_index == IF self.max # T_MAX THEN index % (self.max + 1) ELSE index
        inner_residue == permute_qpr(self, modulo_add(actual_index, self.intermediate_b, self.max))
    IN  permute_qpr(self, modulo_add(inner_residue, self.intermediate_a, self.max))

\* ------------------------------------------------------------------------
\* State
\* ------------------------------------------------------------------------

VARIABLES
    pc,             \* "builder": a RandomSequenceBuilder is held; "sequence": a
                    \* RandomSequence; "permute": the uniqueness loop of test_config
                    \* runs; "search": find_suitable_prime runs
    config,         \* the RandomSequenceBuilder (RandomSequence.config)
    start_index,    \* RandomSequence.start_index
    current_index,  \* RandomSequence.current_index
    ret,            \* the last call: [op, arg, val], val the value it returned
    calls,          \* calls made on a cursor driven one way since into_iter
    seen,           \* the values those calls returned
    trail,          \* the next() calls not yet undone by a prev(), oldest first
    steps,          \* the next() and prev() calls counted since into_iter
    window,         \* the latest values Iterator::next returned in a row, oldest first
    loop_i,         \* test_config: the loop variable i
    nums,           \* test_config: the keys of the map nums
    number,         \* find_suitable_prime: the local `number`
    test            \* machine_prime::is_prime: the registers of a running test

vars == <<pc, config, start_index, current_index, ret, calls, seen, trail,
          steps, window,
          loop_i, nums, number, test>>

\* variables that only a scenario's own actions write
cursor_history == <<calls, seen, trail, steps, window>>

\* no call counted yet
NoSteps == [next |-> 0, prev |-> 0]
loop_vars == <<loop_i, nums, number, test>>

\* no primality test is running
NoTest == [base |-> 0, bit |-> 0, x |-> <<>>, strong |-> FALSE]

\* the calls recorded in `trail`: at most MaxTrail of them
MaxTrail == 2

\* Option<T>: Some(v) and None
Some(v) == <<v>>
None == <<>>

\* the value of `calls` once they are no longer counted
Untracked == 0 - 1

\* mutant of n: the index is taken as absolute, start_index is not added
n_absolute(i) == n_internal(config, i)

\* RandomSequence::n
n(index) == n_internal(config, wrapping_add(start_index, index))

\* mutant of index: the raw internal counter is returned
index_raw == current_index

\* RandomSequence::index
index == wrapping_sub(current_index, start_index)

\* the bounds with_max() is given where a cursor is then driven: the
\* MaxSmall + 1 smallest and largest of the type, and the bound of test_u8_sequence
MaxSmall == 15
TestMax == 100
Maxes == {m \in T : m <= MaxSmall \/ m >= T_MAX - MaxSmall \/ m = TestMax}

\* a builder as constructed: seed(s), or seed(s).with_max(m)
Init ==
    /\ pc = "builder"
    /\ \E s \in 0 .. MaxSeed :
        \/ /\ config = seed(s)
           /\ ret = [op |-> "seed", arg |-> s, val |-> 0]
        \/ \E m \in Maxes :
           /\ config = with_max(seed(s), m)
           /\ ret = [op |-> "with_max", arg |-> m, val |-> 0]
    /\ start_index = 0
    /\ current_index = 0
    /\ calls = 0
    /\ seen = {}
    /\ trail = <<>>
    /\ steps = NoSteps
    /\ window = <<>>
    /\ loop_i = 0
    /\ nums = {}
    /\ number = 0
    /\ test = NoTest

\* ------------------------------------------------------------------------
\* Operations of the builder
\* ------------------------------------------------------------------------

WithMax(max) ==
    /\ pc = "builder"
    /\ config' = with_max(config, max)
    /\ ret' = [op |-> "with_max", arg |-> max, val |-> 0]
    /\ UNCHANGED <<pc, start_index, current_index, cursor_history, loop_vars>>

IntoIter ==
    /\ pc = "builder"
    /\ pc' = "sequence"
    /\ start_index' = into_iter_start(config)
    /\ current_index' = into_iter_start(config)
    /\ ret' = [op |-> "into_iter", arg |-> 0, val |-> 0]
    /\ UNCHANGED <<config, cursor_history, loop_vars>>

\* ------------------------------------------------------------------------
\* Operations of the sequence
\* ------------------------------------------------------------------------

\* how a caller returns the value: the inherent methods as it is (Plain), the
\* iterator traits as Some(value) (Wrapped)
Plain == FALSE
Wrapped == TRUE
Returned(wrap, v) == IF wrap THEN Some(v) ELSE v

\* mutant of next_call: the cursor skips an index
next_call_skipping(op, wrap) ==
    /\ pc = "sequence"
    /\ ret' = [op |-> op, arg |-> 0, val |-> Returned(wrap, n_internal(config, current_index))]
    /\ current_index' = wrapping_add(current_index, 2)
    /\ UNCHANGED <<pc, config, start_index, loop_vars>>

\* RandomSequence::next: compute, then increment; the caller `op` gets the
\* value as `wrap` says
next_call(op, wrap) ==
    /\ pc = "sequence"
    /\ ret' = [op |-> op, arg |-> 0, val |-> Returned(wrap, n_internal(config, current_index))]
    /\ current_index' = wrapping_add(current_index, 1)
    /\ UNCHANGED <<pc, config, start_index, loop_vars>>

\* RandomSequence::prev: decrement, then compute
prev_call(op, wrap) ==
    /\ pc = "sequence"
    /\ current_index' = wrapping_sub(current_index, 1)
    /\ ret' = [op |-> op, arg |-> 0, val |-> Returned(wrap, n_internal(config, current_index'))]
    /\ UNCHANGED <<pc, config, start_index, loop_vars>>

Next_ == next_call("next", Plain) /\ UNCHANGED cursor_history

\* mutant of Prev: compute, then decrement
PrevComputeFirst ==
    /\ pc = "sequence"
    /\ ret' = [op |-> "prev", arg |-> 0, val |-> n_internal(config, current_index)]
    /\ current_index' = wrapping_sub(current_index, 1)
    /\ UNCHANGED <<pc, config, start_index, loop_vars, cursor_history>>

Prev == prev_call("prev", Plain) /\ UNCHANGED cursor_history

N(i) ==
    /\ pc = "sequence"
    /\ ret' = [op |-> "n", arg |-> i, val |-> n(i)]
    /\ UNCHANGED <<pc, config, start_index, current_index, cursor_history, loop_vars>>

Index ==
    /\ pc = "sequence"
    /\ ret' = [op |-> "index", arg |-> 0, val |-> index]
    /\ UNCHANGED <<pc, config, start_index, current_index, cursor_history, loop_vars>>

\* the indices n() is called with: the first and the last of the type
NArgs == {0, T_MAX}

Next ==
    \/ IntoIter
    \/ Next_
    \/ Prev
    \/ \E i \in NArgs : N(i)
    \/ Index

\* a builder turned into a sequence whose next(), prev(), n() and index() are
\* called in any order
Spec == Init /\ [][Next]_vars

\* ------------------------------------------------------------------------
\* The builder alone
\* ------------------------------------------------------------------------

NextBuilder ==
    \/ \E max \in T : WithMax(max)
    \/ IntoIter

\* seed(s) followed by any number of with_max calls, then into_iter
SpecBuilder == Init /\ [][NextBuilder]_vars

\* ------------------------------------------------------------------------
\* The uniqueness loop of test_config, run on any config
\* ------------------------------------------------------------------------

\* one iteration of `for i in 0..CHECK`, CHECK the size max + 1 of the domain:
\* permute_qpr(i) is looked up in nums; an occupied entry panics, a vacant one
\* is filled
PermuteStep ==
    /\ pc \in {"builder", "permute"}
    /\ loop_i <= config.max
    /\ LET num == permute_qpr(config, loop_i) IN
        /\ ret' = [op |-> "permute_qpr", arg |-> loop_i, val |-> num]
        /\ pc' = IF num \in nums THEN "panic" ELSE "permute"
        /\ nums' = nums \cup {num}
    /\ loop_i' = loop_i + 1
    /\ UNCHANGED <<config, start_index, current_index, cursor_history, number, test>>

NextPermute ==
    \/ \E max \in T : WithMax(max)
    \/ PermuteStep

SpecPermute == Init /\ [][NextPermute]_vars

\* ------------------------------------------------------------------------
\* find_suitable_prime, statement by statement
\* ------------------------------------------------------------------------

\* find_suitable_prime(max) is entered: `let mut number = max`
InitSearch ==
    /\ pc = "fsp_enter"
    /\ \E max \in T :
        /\ number = max
        /\ ret = [op |-> "find_suitable_prime", arg |-> max, val |-> 0]
    /\ config = seed(0)
    /\ start_index = 0
    /\ current_index = 0
    /\ calls = 0
    /\ seen = {}
    /\ trail = <<>>
    /\ steps = NoSteps
    /\ window = <<>>
    /\ loop_i = 0
    /\ nums = {}
    /\ test = NoTest

\* the early return for number <= 3, else the step to an odd candidate
SearchEnter ==
    /\ pc = "fsp_enter"
    /\ IF number <= 3
       THEN /\ pc' = "fsp_return"
            /\ ret' = [ret EXCEPT !.val = number]
            /\ UNCHANGED number
       ELSE /\ pc' = "fsp_loop"
            /\ number' = first_candidate(number)
            /\ UNCHANGED ret
    /\ UNCHANGED <<config, start_index, current_index, cursor_history, loop_i, nums, test>>

\* mutant of SearchLoop: the pass leaves number as it is
SearchLoopNoDecrement ==
    /\ pc = "fsp_loop"
    /\ ~search_stops(number)
    /\ number' = number
    /\ UNCHANGED <<pc, ret, config, start_index, current_index, cursor_history, loop_i, nums, test>>

\* one pass of the loop that does not end it: decrement by two
SearchLoop ==
    /\ pc = "fsp_loop"
    /\ ~search_stops(number)
    /\ number' = number - 2
    /\ UNCHANGED <<pc, ret, config, start_index, current_index, cursor_history, loop_i, nums, test>>

\* the loop ends (its condition fails, or the break) and number is returned
SearchReturn ==
    /\ pc = "fsp_loop"
    /\ search_stops(number)
    /\ pc' = "fsp_return"
    /\ ret' = [ret EXCEPT !.val = number]
    /\ UNCHANGED <<number, config, start_index, current_index, cursor_history, loop_i, nums, test>>

NextSearch ==
    \/ SearchEnter
    \/ SearchLoop
    \/ SearchReturn

SpecSearch == InitSearch /\ [][NextSearch]_vars

\* the function runs on: a statement that can be executed is executed
SpecSearchFair == InitSearch /\ [][NextSearch]_vars /\ WF_vars(NextSearch)

\* ------------------------------------------------------------------------
\* find_suitable_prime(T::MAX) for u8, u16, u32 and u64
\* ------------------------------------------------------------------------

\* a number of up to 16 * NLimbs bits is the sequence of its NLimbs limbs of
\* 16 bits, least significant first; u64 values and the intermediates of
\* their modular products fit NLimbs = 5
NLimbs == 5
LimbBase == 2 ^ 16
Limbs == 1 .. NLimbs

\* the first i limbs of f as a sequence
RECURSIVE FirstLimbs(_, _)
FirstLimbs(f, i) == IF i = 0 THEN <<>> ELSE Append(FirstLimbs(f, i - 1), f[i])

\* the limbs f[1], ..., f[NLimbs] as a sequence
Eager(f) == FirstLimbs(f, NLimbs)

\* the number k < LimbBase
Wide(k) == Eager([i \in Limbs |-> IF i = 1 THEN k ELSE 0])

\* a + b
RECURSIVE Carry(_, _, _)
Carry(a, b, i) ==
    IF i = 1 THEN 0 ELSE (a[i - 1] + b[i - 1] + Carry(a, b, i - 1)) \div LimbBase
WAdd(a, b) == Eager([i \in Limbs |-> (a[i] + b[i] + Carry(a, b, i)) % LimbBase])

\* a - b, for a >= b
RECURSIVE Borrow(_, _, _)
Borrow(a, b, i) ==
    IF i = 1 THEN 0
    ELSE IF a[i - 1] - b[i - 1] - Borrow(a, b, i - 1) < 0 THEN 1 ELSE 0
WSub(a, b) == Eager([i \in Limbs |-> (a[i] - b[i] - Borrow(a, b, i)) % LimbBase])

\* a < b
RECURSIVE LessFrom(_, _, _)
LessFrom(a, b, i) ==
    IF i = 0 THEN FALSE
    ELSE IF a[i] # b[i] THEN a[i] < b[i] ELSE LessFrom(a, b, i - 1)
WLess(a, b) == LessFrom(a, b, NLimbs)

\* a * k, for k < 2^15
RECURSIVE MulSmallCarry(_, _, _)
MulSmallCarry(a, k, i) ==
    IF i = 1 THEN 0 ELSE (a[i - 1] * k + MulSmallCarry(a, k, i - 1)) \div LimbBase
WMulSmall(a, k) ==
    Eager([i \in Limbs |-> (a[i] * k + MulSmallCarry(a, k, i)) % LimbBase])

\* a mod d, for d < 2^15
RECURSIVE ModSmallFrom(_, _, _)
ModSmallFrom(a, d, i) ==
    IF i > NLimbs THEN 0 ELSE (ModSmallFrom(a, d, i + 1) * LimbBase + a[i]) % d
WModSmall(a, d) == ModSmallFrom(a, d, 1)

\* the number below 10^4 written with the decimal digits given
RECURSIVE SmallDecimal(_)
SmallDecimal(digits) ==
    IF digits = <<>> THEN 0
    ELSE 10 * SmallDecimal(SubSeq(digits, 1, Len(digits) - 1)) + digits[Len(digits)]

\* the number written with the decimal digits given, most significant first,
\* taken four digits at a time
RECURSIVE Decimal(_)
Decimal(digits) ==
    IF Len(digits) <= 4 THEN Wide(SmallDecimal(digits))
    ELSE WAdd(WMulSmall(Decimal(SubSeq(digits, 1, Len(digits) - 4)), 10000),
              Wide(SmallDecimal(SubSeq(digits, Len(digits) - 3, Len(digits)))))

\* bit i of a, bit 1 the least significant
Bit(a, i) == (a[(i - 1) \div 16 + 1] \div (2 ^ ((i - 1) % 16))) % 2

\* byte j of a, byte 1 the least significant
Byte(a, j) == (a[(j - 1) \div 2 + 1] \div (256 ^ ((j - 1) % 2))) % 256

\* the k lowest bits of a are zero
LowBitsZero(a, k) == \A i \in 1 .. k : Bit(a, i) = 0

\* t mod m, for t < m * 2^(k+1): m * 2^k, ..., m * 2, m are subtracted
\* where they fit
RECURSIVE Reduce(_, _, _)
Reduce(t, m, k) ==
    IF k < 0 THEN t
    ELSE LET mk == WMulSmall(m, 2 ^ k)
         IN  IF WLess(t, mk) THEN Reduce(t, m, k - 1)
             ELSE Reduce(WSub(t, mk), m, k - 1)

\* (a * b) mod m for a, b < m < 2^64, from the most significant byte of b down
WMulMod(a, b, m) ==
    LET RECURSIVE Horner(_)
        Horner(j) ==
            IF j > 8 THEN Wide(0)
            ELSE LET acc == Horner(j + 1)
                 IN  IF acc = Wide(0) /\ Byte(b, j) = 0 THEN acc
                     ELSE Reduce(WAdd(WMulSmall(acc, 256), WMulSmall(a, Byte(b, j))), m, 8)
    IN  Horner(1)

\* the widths of the types impl_seed! is invoked for
Widths == {8, 16, 32, 64}

\* T::MAX of the type of width w: 2^w - 1
MaxOf(w) ==
    Eager([i \in Limbs |->
        IF 16 * i <= w THEN LimbBase - 1
        ELSE IF 16 * (i - 1) < w THEN 2 ^ (w - 16 * (i - 1)) - 1
        ELSE 0])

\* the primes of impl_seed!(u8, ...), (u16, ...), (u32, ...) and (u64, ...)
PRIME_U8 == Decimal(<<2, 5, 1>>)
PRIME_U16 == Decimal(<<6, 5, 5, 1, 9>>)
PRIME_U32 == Decimal(<<4, 2, 9, 4, 9, 6, 7, 2, 9, 1>>)
PRIME_U64 == Decimal(<<1, 8, 4, 4, 6, 7, 4, 4, 0, 7, 3, 7, 0, 9, 5, 5, 1, 4, 2, 7>>)

\* mutant of hard_coded_prime: u64 gets the largest prime of the type,
\* 18446744073709551557, which is 1 mod 4
hard_coded_prime_largest(w) ==
    CASE w = 8 -> PRIME_U8
      [] w = 16 -> PRIME_U16
      [] w = 32 -> PRIME_U32
      [] w = 64 -> WAdd(PRIME_U64, Wide(130))

\* the `prime` field seed() sets for the type of width w
hard_coded_prime(w) ==
    CASE w = 8 -> PRIME_U8
      [] w = 16 -> PRIME_U16
      [] w = 32 -> PRIME_U32
      [] w = 64 -> PRIME_U64

\* machine_prime::is_prime takes a u64 and decides primality exactly.  It is
\* modelled by the strong probable prime test to the twelve bases below,
\* which is exact for every number below 2^64, run one squaring at a time.
U64_BITS == 64
BASES == <<2, 3, 5, 7, 11, 13, 17, 19, 23, 29, 31, 37>>

\* the test of number to the first base starts
FirstTest == [base |-> 1, bit |-> U64_BITS, x |-> Wide(1), strong |-> FALSE]

\* what is_prime settles before any squaring: "prime" for a base itself,
\* "composite" below 2 and for a multiple of a base, else "test"
screen(m) ==
    IF \E k \in 1 .. Len(BASES) : m = Wide(BASES[k]) THEN "prime"
    ELSE IF WLess(m, Wide(2)) \/ \E k \in 1 .. Len(BASES) : WModSmall(m, BASES[k]) = 0
    THEN "composite"
    ELSE "test"

\* find_suitable_prime(T::MAX) is entered for the type of width w
InitWide ==
    /\ pc = "fsp_enter"
    /\ \E w \in Widths :
        /\ number = MaxOf(w)
        /\ ret = [op |-> "find_suitable_prime", arg |-> w, val |-> <<>>]
    /\ config = seed(0)
    /\ start_index = 0
    /\ current_index = 0
    /\ calls = 0
    /\ seen = {}
    /\ trail = <<>>
    /\ steps = NoSteps
    /\ window = <<>>
    /\ loop_i = 0
    /\ nums = {}
    /\ test = NoTest

\* the early return for number <= 3, else the step to an odd candidate
WideEnter ==
    /\ pc = "fsp_enter"
    /\ IF ~WLess(Wide(3), number)
       THEN /\ pc' = "fsp_return"
            /\ ret' = [ret EXCEPT !.val = number]
            /\ UNCHANGED number
       ELSE /\ pc' = "fsp_loop"
            /\ number' = IF Bit(number, 1) = 0 THEN WSub(number, Wide(1)) ELSE number
            /\ UNCHANGED ret
    /\ UNCHANGED <<config, start_index, current_index, cursor_history, loop_i, nums, test>>

\* one pass of the loop up to the call of is_prime: the loop ends when number
\* <= 3; a number that is not 3 mod 4 is decremented by two; for one that is,
\* is_prime is called, and answers at once or starts its test
WideLoop ==
    /\ pc = "fsp_loop"
    /\ LET called == WLess(Wide(3), number) /\ number[1] % 4 = 3
           answer == IF called THEN screen(number) ELSE "none"
       IN  /\ pc' = IF ~WLess(Wide(3), number) \/ answer = "prime" THEN "fsp_return"
                    ELSE IF answer = "test" THEN "is_prime"
                    ELSE "fsp_loop"
           /\ ret' = IF pc' = "fsp_return" THEN [ret EXCEPT !.val = number] ELSE ret
           /\ number' = IF pc' = "fsp_loop" THEN WSub(number, Wide(2)) ELSE number
           /\ test' = IF pc' = "is_prime" THEN FirstTest ELSE NoTest
    /\ UNCHANGED <<config, start_index, current_index, cursor_history, loop_i, nums>>

\* is_prime squares once more: x becomes a^e for e the bits of number - 1
\* from bit test.bit up; `strong` records that a^d = 1 or a^(d * 2^r) =
\* number - 1 was met, number - 1 = d * 2^s, d odd, 0 <= r < s.  After the
\* last squaring of a base: without `strong` number is composite and the loop
\* goes on with number - 2; with it the next base is tried, and after the
\* last base number is prime: the loop breaks and number is returned
IsPrimeStep ==
    /\ pc = "is_prime"
    /\ LET a == BASES[test.base]
           e == WSub(number, Wide(1))
           i == test.bit
           sq == WMulMod(test.x, test.x, number)
           x == IF Bit(e, i) = 1 THEN Reduce(WMulSmall(sq, a), number, 5) ELSE sq
           tail == LowBitsZero(e, i - 1)
           strong == \/ test.strong
                     \/ tail /\ Bit(e, i) = 1 /\ x = Wide(1)
                     \/ tail /\ i >= 2 /\ x = e
       IN  IF i > 2
           THEN /\ test' = [test EXCEPT !.bit = i - 1, !.x = x, !.strong = strong]
                /\ UNCHANGED <<pc, number, ret>>
           ELSE IF ~strong
           THEN /\ pc' = "fsp_loop"
                /\ number' = WSub(number, Wide(2))
                /\ test' = NoTest
                /\ UNCHANGED ret
           ELSE IF test.base < Len(BASES)
           THEN /\ test' = [FirstTest EXCEPT !.base = test.base + 1]
                /\ UNCHANGED <<pc, number, ret>>
           ELSE /\ pc' = "fsp_return"
                /\ ret' = [ret EXCEPT !.val = number]
                /\ test' = NoTest
                /\ UNCHANGED number
    /\ UNCHANGED <<config, start_index, current_index, cursor_history, loop_i, nums>>

NextWide ==
    \/ WideEnter
    \/ WideLoop
    \/ IsPrimeStep

SpecWide == InitWide /\ [][NextWide]_vars

\* ------------------------------------------------------------------------
\* A fresh cursor driven one way
\* ------------------------------------------------------------------------

\* next() on a cursor on which only next() was called since into_iter
NextFresh ==
    /\ ret.op \in {"into_iter", "next"}
    /\ calls < Modulus
    /\ next_call("next", Plain)
    /\ calls' = calls + 1
    /\ seen' = seen \cup {ret'.val}
    /\ UNCHANGED <<trail, steps, window>>

\* prev() on a cursor on which only prev() was called since into_iter
PrevFresh ==
    /\ ret.op \in {"into_iter", "prev"}
    /\ calls < Modulus
    /\ prev_call("prev", Plain)
    /\ calls' = calls + 1
    /\ seen' = seen \cup {ret'.val}
    /\ UNCHANGED <<trail, steps, window>>

NextOneWay ==
    \/ IntoIter
    \/ NextFresh
    \/ PrevFresh

SpecFresh == Init /\ [][NextOneWay]_vars

\* ------------------------------------------------------------------------
\* A cursor stepped forward and back, the steps forward remembered
\* ------------------------------------------------------------------------

\* the sequence without its last element
Front(q) == SubSeq(q, 1, Len(q) - 1)

\* next(), remembered with the current_index it was called at and what it returned
NextTrail ==
    /\ next_call("next", Plain)
    /\ LET call == [current_index |-> current_index, val |-> ret'.val] IN
        trail' = IF Len(trail) < MaxTrail
                 THEN Append(trail, call)
                 ELSE Append(Tail(trail), call)
    /\ UNCHANGED <<calls, seen, steps, window>>

\* prev(), undoing the latest next() still remembered
PrevTrail ==
    /\ prev_call("prev", Plain)
    /\ trail' = IF trail = <<>> THEN trail ELSE Front(trail)
    /\ UNCHANGED <<calls, seen, steps, window>>

NextBackForth ==
    \/ IntoIter
    \/ NextTrail
    \/ PrevTrail

SpecTrail == Init /\ [][NextBackForth]_vars

\* ------------------------------------------------------------------------
\* The Iterator and DoubleEndedIterator implementations
\* ------------------------------------------------------------------------

\* Iterator::next: Some(self.next())
IterNext ==
    /\ next_call("Iterator::next", Wrapped)
    /\ calls' = IF calls # Untracked /\ calls < Modulus THEN calls + 1 ELSE Untracked
    /\ UNCHANGED <<seen, trail, steps, window>>

\* DoubleEndedIterator::next_back: Some(self.prev())
NextBack ==
    /\ prev_call("next_back", Wrapped)
    /\ calls' = Untracked
    /\ UNCHANGED <<seen, trail, steps, window>>

NextIterator ==
    \/ IntoIter
    \/ IterNext
    \/ NextBack

SpecIterator == Init /\ [][NextIterator]_vars

\* ------------------------------------------------------------------------
\* A cursor whose next() and prev() calls are counted
\* ------------------------------------------------------------------------

\* at most MaxCalls calls of next() and as many of prev() are counted
MaxCalls == 3

NextCounted ==
    /\ steps.next < MaxCalls
    /\ next_call("next", Plain)
    /\ steps' = [steps EXCEPT !.next = @ + 1]
    /\ UNCHANGED <<calls, seen, trail, window>>

PrevCounted ==
    /\ steps.prev < MaxCalls
    /\ prev_call("prev", Plain)
    /\ steps' = [steps EXCEPT !.prev = @ + 1]
    /\ UNCHANGED <<calls, seen, trail, window>>

NextOffset ==
    \/ IntoIter
    \/ NextCounted
    \/ PrevCounted
    \/ \E i \in NArgs : N(i)
    \/ Index

SpecOffset == Init /\ [][NextOffset]_vars

\* ------------------------------------------------------------------------
\* The arithmetic that can panic: `-` and `+` on T with overflow checks on,
\* `%` by zero
\* ------------------------------------------------------------------------

\* a - b on T panics
sub_fails(a, b) == a < b

\* a + b on T panics
add_fails(a, b) == a + b > T_MAX

\* x % d panics
rem_fails(d) == d = 0

\* a subtraction of the loop of find_suitable_prime panics, the loop entered
\* with `number` = candidate
RECURSIVE search_fails(_)
search_fails(candidate) ==
    IF search_stops(candidate) THEN FALSE
    ELSE \/ sub_fails(candidate, 1)
         \/ sub_fails(candidate - 1, 1)
         \/ search_fails(candidate - 2)

\* find_suitable_prime(max) panics
find_suitable_prime_fails(max) ==
    IF max <= 3 THEN FALSE
    ELSE \/ (max % 2 = 0 /\ sub_fails(max, 1))
         \/ search_fails(first_candidate(max))

\* x.residue(prime) panics: the product overflows the larger type, or prime = 0
residue_fails(x, prime) == x * x >= LargerModulus \/ rem_fails(prime)

\* a.modulo_add(b, max) panics
modulo_add_fails(a, b, max) ==
    IF max = T_MAX THEN FALSE
    ELSE \/ a + b >= LargerModulus
         \/ max + 1 >= LargerModulus
         \/ rem_fails(max + 1)

\* permute_qpr(x) panics
permute_qpr_fails(self, x) ==
    IF x >= self.prime /\ self.prime > 1 THEN FALSE
    ELSE IF x <= 1 THEN FALSE
    ELSE \/ residue_fails(x, self.prime)
         \/ (~(x <= self.prime \div 2) /\ sub_fails(self.prime, residue(x, self.prime)))

\* mutant of into_iter_fails: start_index is computed also for max = 0
into_iter_fails_unguarded(self) ==
    \/ permute_qpr_fails(self, self.seed)
    \/ permute_qpr_fails(self, wrapping_add(permute_qpr(self, self.seed), self.intermediate_b))

\* into_iter() panics
into_iter_fails(self) ==
    IF self.max > 0
    THEN \/ permute_qpr_fails(self, self.seed)
         \/ permute_qpr_fails(self, wrapping_add(permute_qpr(self, self.seed),
                                                 self.intermediate_b))
    ELSE FALSE

\* n_internal(at) panics; next(), prev() and n() add to it only wrapping
\* operations
n_internal_fails(self, at) ==
    LET reduced == self.max # T_MAX
        actual_index == IF reduced THEN at % (self.max + 1) ELSE at
        inner == modulo_add(actual_index, self.intermediate_b, self.max)
        inner_residue == permute_qpr(self, inner)
        outer == modulo_add(inner_residue, self.intermediate_a, self.max)
    IN  \/ (reduced /\ (add_fails(self.max, 1) \/ rem_fails(self.max + 1)))
        \/ modulo_add_fails(actual_index, self.intermediate_b, self.max)
        \/ permute_qpr_fails(self, inner)
        \/ modulo_add_fails(inner_residue, self.intermediate_a, self.max)
        \/ permute_qpr_fails(self, outer)

\* ------------------------------------------------------------------------
\* RandomSequenceBuilder::<usize> on a 64-bit target: u64 values on limbs
\* ------------------------------------------------------------------------

\* the largest max the usize operations are applied to
MaxVector == 6

\* the low 64 bits of a: the cast `as u64`, and the wrap of a u64 operation
Low64(a) == Eager([i \in Limbs |-> IF i <= 4 THEN a[i] ELSE 0])

\* SEED_NOISE as a u64
SEED_NOISE_U64 ==
    Eager([i \in Limbs |->
        IF i <= 4 THEN SEED_NOISE[2 * i - 1] + 256 * SEED_NOISE[2 * i] ELSE 0])

\* a ^ b on limbs, four bits at a time
Xor16(a, b) ==
    BitXor(a % 16, b % 16)
    + 16 * BitXor((a \div 16) % 16, (b \div 16) % 16)
    + 256 * BitXor((a \div 256) % 16, (b \div 256) % 16)
    + 4096 * BitXor(a \div 4096, b \div 4096)

\* a ^ b
WXor(a, b) == Eager([i \in Limbs |-> Xor16(a[i], b[i])])

\* a >> 1
WShr1(a) ==
    Eager([i \in Limbs |->
        (a[i] \div 2) + (IF i < NLimbs THEN (a[i + 1] % 2) * (LimbBase \div 2) ELSE 0)])

\* a.wrapping_add(b) and a.wrapping_sub(b) on u64
wrapping_add_u64(a, b) == Low64(WAdd(a, b))
wrapping_sub_u64(a, b) == Low64(WSub(a, b))

\* mutant of seed_u64: intermediate_b is made from SEED_NOISE, not SEED_NOISE + 1
seed_u64_noise_not_incremented(s) ==
    [ seed           |-> wrapping_add_u64(WXor(Wide(s), SEED_NOISE_U64), SEED_NOISE_U64),
      intermediate_a |-> SEED_NOISE_U64,
      intermediate_b |-> wrapping_sub_u64(WShr1(Wide(s)), SEED_NOISE_U64),
      prime          |-> hard_coded_prime(64),
      max            |-> MaxOf(64) ]

\* RandomSequenceBuilder::<usize>::seed(s), for s < LimbBase
seed_u64(s) ==
    [ seed           |-> wrapping_add_u64(WXor(Wide(s), SEED_NOISE_U64), SEED_NOISE_U64),
      intermediate_a |-> SEED_NOISE_U64,
      intermediate_b |-> wrapping_sub_u64(WShr1(Wide(s)), WAdd(SEED_NOISE_U64, Wide(1))),
      prime          |-> hard_coded_prime(64),
      max            |-> MaxOf(64) ]

\* with_max(max) on usize, for max in T: find_suitable_prime does the same
\* steps on a usize as on a u8 of the same value
with_max_u64(self, max) ==
    [self EXCEPT !.max = Wide(max), !.prime = Wide(suitable_prime[max])]

\* QuadraticResidue::residue of impl_residue!(usize, u128), for prime below
\* LimbBase / 2: the product in u128 is exact, so the result is x^2 mod
\* prime, which is formed here from x mod prime
residue_u64(x, prime) ==
    LET r == WModSmall(x, prime[1]) IN Wide((r * r) % prime[1])

\* QuadraticResidue::modulo_add of impl_residue!(usize, u128), for max = T::MAX
\* or max below LimbBase / 2 - 1: a + b is formed in u128, where it is exact
modulo_add_u64(a, b, max) ==
    IF max = MaxOf(64) THEN wrapping_add_u64(a, b)
    ELSE Wide(WModSmall(WAdd(a, b), max[1] + 1))

\* RandomSequenceBuilder::<usize>::permute_qpr
permute_qpr_u64(self, x) ==
    IF ~WLess(x, self.prime) /\ WLess(Wide(1), self.prime)
    THEN IF Bit(self.intermediate_b, 1) = 0 /\ x = self.prime THEN self.max
         ELSE IF Bit(self.intermediate_b, 1) = 0 /\ x = self.max THEN self.prime
         ELSE x
    ELSE IF ~WLess(Wide(1), x)
    THEN IF WLess(Wide(0), self.max)
         THEN Wide(BitXor(x[1], Bit(self.seed, 1)) % 2)
         ELSE Wide(0)
    ELSE IF ~WLess(WShr1(self.prime), x)
         THEN residue_u64(x, self.prime)
         ELSE WSub(self.prime, residue_u64(x, self.prime))

\* the start index computed by IntoIterator::into_iter on usize
into_iter_start_u64(self) ==
    IF WLess(Wide(0), self.max)
    THEN permute_qpr_u64(self,
            wrapping_add_u64(permute_qpr_u64(self, self.seed), self.intermediate_b))
    ELSE Wide(0)

\* RandomSequence::<usize>::n_internal, for max = T::MAX or max below
\* LimbBase / 2 - 1
n_internal_u64(self, at) ==
    LET actual_index == IF self.max # MaxOf(64)
                        THEN Wide(WModSmall(at, self.max[1] + 1))
                        ELSE at
        inner_residue ==
            permute_qpr_u64(self, modulo_add_u64(actual_index, self.intermediate_b, self.max))
    IN  permute_qpr_u64(self, modulo_add_u64(inner_residue, self.intermediate_a, self.max))

\* no builder yet; `trail` will hold the arguments the builder was made with
InitVector ==
    /\ pc = "start"
    /\ ret = [op |-> "none", arg |-> 0, val |-> 0]
    /\ config = seed(0)
    /\ start_index = 0
    /\ current_index = 0
    /\ calls = 0
    /\ seen = {}
    /\ trail = <<>>
    /\ steps = NoSteps
    /\ window = <<>>
    /\ loop_i = 0
    /\ nums = {}
    /\ number = 0
    /\ test = NoTest

\* RandomSequenceBuilder::<usize>::seed(s)
SeedVector(s) ==
    /\ pc = "start"
    /\ pc' = "seeded"
    /\ config' = seed_u64(s)
    /\ trail' = <<s>>
    /\ ret' = [op |-> "seed", arg |-> s, val |-> 0]
    /\ UNCHANGED <<start_index, current_index, calls, seen, steps, window, loop_vars>>

\* .with_max(max) on the seeded builder
WithMaxVector(max) ==
    /\ pc = "seeded"
    /\ pc' = "builder"
    /\ config' = with_max_u64(config, max)
    /\ trail' = Append(trail, max)
    /\ ret' = [op |-> "with_max", arg |-> max, val |-> 0]
    /\ UNCHANGED <<start_index, current_index, calls, seen, steps, window, loop_vars>>

\* .into_iter()
IntoIterVector ==
    /\ pc = "builder"
    /\ pc' = "sequence"
    /\ start_index' = into_iter_start_u64(config)
    /\ current_index' = into_iter_start_u64(config)
    /\ ret' = [op |-> "into_iter", arg |-> 0, val |-> 0]
    /\ UNCHANGED <<config, cursor_history, loop_vars>>

\* RandomSequence::<usize>::next, at most max + 1 times as the test's
\* take(cmp.len()) does; `window` holds the values returned so far
NextVector ==
    /\ pc = "sequence"
    /\ calls <= config.max[1]
    /\ ret' = [op |-> "next", arg |-> 0, val |-> n_internal_u64(config, current_index)]
    /\ current_index' = wrapping_add_u64(current_index, Wide(1))
    /\ calls' = calls + 1
    /\ window' = Append(window, ret'.val)
    /\ UNCHANGED <<pc, config, start_index, seen, trail, steps, loop_vars>>

NextVectors ==
    \/ \E s \in 0 .. MaxSeed : SeedVector(s)
    \/ \E max \in 0 .. MaxVector : WithMaxVector(max)
    \/ IntoIterVector
    \/ NextVector

SpecVector == InitVector /\ [][NextVectors]_vars

\* ------------------------------------------------------------------------
\* residue, modulo_add and the fold of permute_qpr on any operands
\* ------------------------------------------------------------------------

\* two operands of type T are at hand
InitArith ==
    /\ pc = "operands"
    /\ \E a, b \in T : ret = [op |-> "operands", arg |-> <<a, b>>, val |-> 0]
    /\ config = seed(0)
    /\ start_index = 0
    /\ current_index = 0
    /\ calls = 0
    /\ seen = {}
    /\ trail = <<>>
    /\ steps = NoSteps
    /\ window = <<>>
    /\ loop_i = 0
    /\ nums = {}
    /\ number = 0
    /\ test = NoTest

\* x.residue(prime), which permute_qpr calls for a prime that is not zero
ResidueCall ==
    /\ pc = "operands"
    /\ ret.arg[2] >= 1
    /\ pc' = "called"
    /\ ret' = [op |-> "residue", arg |-> ret.arg, val |-> residue(ret.arg[1], ret.arg[2])]
    /\ UNCHANGED <<config, start_index, current_index, cursor_history, loop_vars>>

\* a.modulo_add(b, max), called once for each max of T: val[max] is what
\* the call with that max returns
ModuloAddCall ==
    /\ pc = "operands"
    /\ pc' = "called"
    /\ ret' = [op |-> "modulo_add", arg |-> ret.arg,
               val |-> [max \in T |-> modulo_add(ret.arg[1], ret.arg[2], max)]]
    /\ UNCHANGED <<config, start_index, current_index, cursor_history, loop_vars>>

\* permute_qpr(x) on seed(0).with_max(max) for the operands x <= max
FoldCall ==
    /\ pc = "operands"
    /\ ret.arg[1] <= ret.arg[2]
    /\ pc' = "called"
    /\ config' = with_max(config, ret.arg[2])
    /\ ret' = [op |-> "permute_qpr", arg |-> ret.arg[1],
               val |-> permute_qpr(config', ret.arg[1])]
    /\ UNCHANGED <<start_index, current_index, cursor_history, loop_vars>>

NextArith ==
    \/ ResidueCall
    \/ ModuloAddCall
    \/ FoldCall

SpecArith == InitArith /\ [][NextArith]_vars

\* ------------------------------------------------------------------------
\* The last 2^W values of consecutive Iterator::next calls
\* ------------------------------------------------------------------------

\* at most MaxSeek calls of next_back move the cursor before the first next
MaxSeek == 1

\* Iterator::next; `window` holds the values the last 2^W consecutive
\* calls returned, at most
WindowNext ==
    /\ next_call("Iterator::next", Wrapped)
    /\ LET values == Append(window, ret'.val[1])
       IN  window' = IF Len(values) > Modulus THEN Tail(values) ELSE values
    /\ UNCHANGED <<calls, seen, trail, steps>>

\* DoubleEndedIterator::next_back, before the first call of Iterator::next
WindowBack ==
    /\ window = <<>>
    /\ steps.prev < MaxSeek
    /\ prev_call("next_back", Wrapped)
    /\ steps' = [steps EXCEPT !.prev = @ + 1]
    /\ UNCHANGED <<calls, seen, trail, window>>

NextWindow ==
    \/ IntoIter
    \/ WindowNext
    \/ WindowBack

SpecWindow == Init /\ [][NextWindow]_vars

\* ------------------------------------------------------------------------
\* Claims
\* ------------------------------------------------------------------------

\* primality by definition: no divisor strictly between 1 and p
IsPrimeNumber(p) == p > 1 /\ \A d \in 2 .. (p - 1) : p % d # 0

\* a prime congruent to 3 modulo 4
Suitable(p) == IsPrimeNumber(p) /\ p % 4 = 3

\* C1: permute_qpr of seed(s).with_max(m) is a bijection on [0, m]: the loop
\* over x = 0 .. m never meets a value twice, every value is in [0, m], and
\* after the last x the values met are all of [0, m] (m + 1 distinct elements)
C1_PermuteBijection ==
    pc \in {"permute", "panic"} =>
        /\ pc # "panic"
        /\ nums \subseteq 0 .. config.max
        /\ Cardinality(nums) = loop_i
        /\ loop_i = config.max + 1 => nums = 0 .. config.max

C1_Witness ==
    /\ pc = "permute"
    /\ config.max = TestMax
    /\ config.prime < config.max
    /\ loop_i = config.max + 1

\* C2: the first m + 1 values next() returns on a freshly built sequence are
\* pairwise distinct and are exactly 0 .. m
C2_VisitsEachOnce ==
    (ret.op = "next" /\ calls <= config.max + 1) =>
        /\ Cardinality(seen) = calls
        /\ calls = config.max + 1 => seen = 0 .. config.max

\* C3: after any interleaving of next() and prev(), the value returned by
\* next(), by prev() and by n(i) is in [0, config.max]; on the sequence as
\* built this holds of n(i) for every index i of the type
C3_ValuesInRange ==
    /\ ret.op \in {"next", "prev", "n"} => ret.val \in 0 .. config.max
    /\ ret.op = "into_iter" => \A i \in T : n(i) \in 0 .. config.max

C3_Witness ==
    /\ ret.op = "prev"
    /\ config.max = TestMax
    /\ index = T_MAX - 1
    /\ current_index > config.max
    /\ ret.val <= config.max

\* C4: on a fresh cursor the (k+1)-th next() returns n(k) and the (k+1)-th
\* prev() returns n(2^W - 1 - k), for every k in [0, 2^W - 1]
C4_NAgreesWithIteration ==
    /\ ret.op = "next" => ret.val = n(calls - 1)
    /\ ret.op = "prev" => ret.val = n(T_MAX - (calls - 1))

C4_Witness ==
    /\ ret.op = "prev"
    /\ calls = Modulus
    /\ config.max = TestMax
    /\ start_index > config.max

\* C5 as claimed: after any next() or prev(), n(index()) is the value that
\* call returned
C5_NOfIndexIsLastValue ==
    ret.op \in {"next", "prev"} => n(index) = ret.val

\* C5 as amended: after prev(), n(index()) is the value prev() returned; after
\* next(), it is n(index() - 1), the subtraction wrapping, that is the value
\* next() returned
C5_NOfIndexAfterStep ==
    /\ ret.op = "prev" => n(index) = ret.val
    /\ ret.op = "next" => n(wrapping_sub(index, 1)) = ret.val

C5_Witness ==
    /\ ret.op = "next"
    /\ index = 0
    /\ n(index) # ret.val

\* C6: a prev() that undoes a remembered next() restores the current_index
\* that next() was called at and returns the value it returned; so k next()
\* followed by k prev() restore current_index, prev() right after next()
\* returns the same value, and the next() that follows the prev() calls
\* returns again what the first next() returned
C6_Reversible ==
    [][ /\ (ret'.op = "prev" /\ trail # <<>>) =>
              /\ current_index' = trail[Len(trail)].current_index
              /\ ret'.val = trail[Len(trail)].val
        /\ (ret.op = "next" /\ ret'.op = "prev") => ret'.val = ret.val
        /\ (ret.op = "prev" /\ ret'.op = "next") => ret'.val = ret.val
      ]_vars

\* two next() calls, the second across the wraparound of the type, and the
\* second undone
C6_Witness ==
    /\ ret.op = "prev"
    /\ Len(trail) = 1
    /\ trail[1].current_index = T_MAX - 1
    /\ current_index = T_MAX
    /\ config.max < T_MAX

\* C7: on a fresh cursor with max < T::MAX, Iterator::next yields
\* a value on each of the first max + 1 calls and None on every further call
C7_ExactSizeExhaustion ==
    (ret.op = "Iterator::next" /\ calls # Untracked /\ config.max < T_MAX) =>
        IF calls <= config.max + 1 THEN ret.val # None ELSE ret.val = None

\* C8: find_suitable_prime(b) returns b for b <= 2 and, for b >= 3, the
\* largest p <= b that is prime with p mod 4 = 3; f(100) = f(101) = 83,
\* f(7) = 7, f(6) = f(5) = f(4) = f(3) = 3, f(2) = 2, f(1) = 1, f(0) = 0
C8_LargestSuitablePrime ==
    pc = "fsp_return" =>
        LET b == ret.arg
            p == ret.val
        IN  /\ b <= 2 => p = b
            /\ b >= 3 =>
                /\ p <= b
                /\ Suitable(p)
                /\ \A q \in (p + 1) .. b : ~Suitable(q)
            /\ b \in {100, 101} => p = 83
            /\ b = 7 => p = 7
            /\ b \in 3 .. 6 => p = 3

C8_Witness ==
    /\ pc = "fsp_return"
    /\ ret.arg = 100
    /\ ret.val = 83

\* C9: every config made by seed(s) and any number of with_max calls has
\* 0 <= prime <= max, prime = max when max <= 2, and a prime that is prime
\* and 3 mod 4 when max >= 3
C9_ConfigInvariant ==
    /\ 0 <= config.prime
    /\ config.prime <= config.max
    /\ config.max <= 2 => config.prime = config.max
    /\ config.max >= 3 => Suitable(config.prime)

C9_Witness ==
    /\ ret.op = "with_max"
    /\ config.max = 22
    /\ config.prime = 19

\* C10: the prime seed() hard-codes for u8, u16, u32 and u64 is what
\* find_suitable_prime(T::MAX) returns for that type: the search from T::MAX
\* ends by its break, at a number above 3 that is 3 mod 4 and that is_prime
\* found prime, and that number is the hard-coded prime (251, 65519,
\* 4294967291, 18446744073709551427); so with_max(T::MAX), which only sets
\* max = T::MAX and prime = find_suitable_prime(T::MAX), leaves seed(s)
\* as it is, field for field
C10_HardCodedPrimes ==
    pc = "fsp_return" =>
        /\ ret.val = hard_coded_prime(ret.arg)
        /\ WLess(Wide(3), ret.val)
        /\ ret.val[1] % 4 = 3
        /\ ret.arg = W =>
            /\ ret.val = Wide(HARD_CODED_PRIME)
            /\ IsPrimeNumber(HARD_CODED_PRIME)
            /\ find_suitable_prime(T_MAX) = HARD_CODED_PRIME
            /\ \A s \in 0 .. MaxSeed : with_max(seed(s), T_MAX) = seed(s)

C10_Witness ==
    /\ pc = "fsp_return"
    /\ ret.arg = U64_BITS
    /\ ret.val = PRIME_U64
    /\ WLess(ret.val, MaxOf(U64_BITS))

\* C11: index() is the logical offset from the start: 0 on a fresh cursor and
\* (a - b) mod 2^W after a calls of next() and b calls of prev(), whatever
\* start_index is; n() and index() leave the cursor where it is
C11_IndexIsOffset ==
    [][ /\ pc' = "sequence" => index' = (steps'.next - steps'.prev) % Modulus
        /\ ret'.op = "into_iter" => index' = 0
        /\ ret'.op = "index" => ret'.val = (steps'.next - steps'.prev) % Modulus
        /\ ret'.op \in {"n", "index"} =>
              /\ current_index' = current_index
              /\ start_index' = start_index
      ]_vars

C11_Witness ==
    /\ ret.op = "index"
    /\ start_index > 0
    /\ steps = [next |-> 1, prev |-> 2]
    /\ ret.val = T_MAX

\* C12: no public operation panics: on every config made by seed(s) and
\* with_max(m), m any value of the type, the search of with_max(m) and
\* into_iter() (which applies permute_qpr to the raw seed) make no
\* subtraction below zero, no overflowing addition and no remainder by
\* zero, and on the sequence neither does n_internal at any index, which is
\* all that next(), prev() and n(i) compute; index() only subtracts wrapping
C12_NoOperationFails ==
    /\ ret.op = "with_max" => ~find_suitable_prime_fails(ret.arg)
    /\ pc = "builder" => ~into_iter_fails(config)
    /\ pc = "sequence" => \A i \in T : ~n_internal_fails(config, i)

C12_Witness ==
    /\ ret.op = "into_iter"
    /\ config.max = 1
    /\ config.prime = 1
    /\ config.seed > config.max
    /\ start_index <= config.max

\* C13: on a 64-bit target RandomSequenceBuilder::<usize>::seed(0)
\* .with_max(5).into_iter() returns 1, 4, 5, 2, 3, 0 from its first six
\* calls of next(), in this order
C13_RegressionVector ==
    (pc = "sequence" /\ trail = <<0, 5>>) =>
        /\ Len(window) <= 6
        /\ window = SubSeq(<<Wide(1), Wide(4), Wide(5), Wide(2), Wide(3), Wide(0)>>,
                           1, Len(window))
C13_Witness ==
    /\ trail = <<0, 5>>
    /\ Len(window) = 6
    /\ ret.op = "next"
    /\ ret.val = Wide(0)
    /\ start_index[4] > 0

\* C14: as the doc comment of find_suitable_prime says, for every max the
\* value returned is below max and is 3 mod 4
C14_DocumentedPrime ==
    pc = "fsp_return" => (ret.val < ret.arg /\ ret.val % 4 = 3)

\* C15 as stated: where prime > 1, permute_qpr maps every x of prime .. max
\* to itself, except that prime and max are exchanged, and they are exchanged
\* exactly when intermediate_b is odd
C15_SwapWhenOdd ==
    (ret.op = "permute_qpr" /\ config.prime > 1 /\ ret.arg >= config.prime) =>
        LET exchange == config.intermediate_b % 2 = 1
        IN  ret.val = IF exchange /\ ret.arg = config.prime THEN config.max
                      ELSE IF exchange /\ ret.arg = config.max THEN config.prime
                      ELSE ret.arg

\* C15 amended: where prime > 1, permute_qpr maps every x of prime .. max to
\* itself, except that prime and max are exchanged, and they are exchanged
\* exactly when intermediate_b is even (its lowest bit is clear)
C15_SwapWhenEven ==
    (ret.op = "permute_qpr" /\ config.prime > 1 /\ ret.arg >= config.prime) =>
        LET exchange == config.intermediate_b % 2 = 0
        IN  ret.val = IF exchange /\ ret.arg = config.prime THEN config.max
                      ELSE IF exchange /\ ret.arg = config.max THEN config.prime
                      ELSE ret.arg

C15_Witness ==
    /\ ret.op = "permute_qpr"
    /\ config.intermediate_b % 2 = 0
    /\ config.prime > 1
    /\ config.prime < config.max
    /\ ret.arg = config.max
    /\ ret.val = config.prime

\* C16: residue(x, prime) is the exact x * x mod prime for every x and every
\* prime >= 1, modulo_add(a, b, max) is the exact (a + b) mod (max + 1) for
\* every a, b and max, T::MAX included, and for 2 <= x < prime permute_qpr(x)
\* is x * x mod prime if x <= prime / 2 and prime less that otherwise
C16_ExactArithmetic ==
    /\ ret.op = "residue" => ret.val = (ret.arg[1] * ret.arg[1]) % ret.arg[2]
    /\ ret.op = "modulo_add" =>
          \A max \in T : ret.val[max] = (ret.arg[1] + ret.arg[2]) % (max + 1)
    /\ (ret.op = "permute_qpr" /\ 2 <= ret.arg /\ ret.arg < config.prime) =>
          ret.val = IF ret.arg <= config.prime \div 2
                    THEN (ret.arg * ret.arg) % config.prime
                    ELSE config.prime - ((ret.arg * ret.arg) % config.prime)

C16_Witness ==
    /\ ret.op = "residue"
    /\ ret.arg = <<T_MAX, HARD_CODED_PRIME>>
    /\ ret.val = 16

\* C17: with_max(m) sets max to m and prime to find_suitable_prime(m) and
\* leaves seed, intermediate_a and intermediate_b as they were, so the
\* builder after any chain of with_max calls is seed(s).with_max(m) for the
\* last bound m
C17_WithMaxOnlyBound ==
    [][ ret'.op = "with_max" =>
          /\ config'.max = ret'.arg
          /\ config'.prime = find_suitable_prime(ret'.arg)
          /\ config'.seed = config.seed
          /\ config'.intermediate_a = config.intermediate_a
          /\ config'.intermediate_b = config.intermediate_b
          /\ \E s \in 0 .. MaxSeed :
                /\ seed(s).seed = config.seed
                /\ config' = with_max(seed(s), ret'.arg)
      ]_vars

C17_Witness ==
    /\ ret = [op |-> "with_max", arg |-> 200, val |-> 0]
    /\ config.max = 200
    /\ config.prime = 199
    /\ config.seed = seed(2).seed

\* C18: on a sequence with max = T::MAX Iterator::next and next_back always
\* return Some value, any 2^W consecutive values of Iterator::next are
\* pairwise distinct, and the call after 2^W calls returns the first of them
\* again: the output has period exactly 2^W
C18_FullWidthCycles ==
    [][ config'.max = T_MAX =>
          /\ ret'.op \in {"Iterator::next", "next_back"} =>
                (ret'.val # None /\ Len(ret'.val) = 1 /\ ret'.val[1] \in T)
          /\ Cardinality({window'[i] : i \in 1 .. Len(window')}) = Len(window')
          /\ (Len(window) = Modulus /\ ret'.op = "Iterator::next") =>
                ret'.val = Some(window[1])
      ]_vars

C18_Witness ==
    /\ config.max = T_MAX
    /\ steps.prev = 1
    /\ Len(window) = Modulus
    /\ current_index = start_index
    /\ ret = [op |-> "Iterator::next", arg |-> 0, val |-> Some(window[Modulus])]
    /\ {window[i] : i \in 1 .. Modulus} = T

\* C19: on a sequence with max < T::MAX, from any cursor position the 2^W
\* values the next 2^W calls of next() return are all the values of
\* 0 .. max: max + 1 different values
C19_BoundedCoverage ==
    (config.max < T_MAX /\ Len(window) = Modulus) =>
        /\ {window[i] : i \in 1 .. Modulus} = 0 .. config.max
        /\ Cardinality({window[i] : i \in 1 .. Modulus}) = config.max + 1

C19_Witness ==
    /\ config.max = TestMax
    /\ Len(window) = Modulus
    /\ current_index = wrapping_add(start_index, 7)
    /\ start_index > config.max
    /\ ret.op = "Iterator::next"
    /\ ret.val = Some(window[Modulus])
    /\ window[Modulus] = window[Modulus - (TestMax + 1)]

\* C20: find_suitable_prime returns for every bound of the type; for a bound
\* >= 3 the candidate never goes below 3 (after 7, 5 and 3 are the last odd
\* candidates and the search stops at 3), so the value returned is >= 3
C20_SearchTerminates ==
    /\ <>(pc = "fsp_return")
    /\ [](ret.arg >= 3 => number >= 3)
    /\ []((pc = "fsp_return" /\ ret.arg >= 3) => ret.val >= 3)

C20_Witness ==
    /\ pc = "fsp_return"
    /\ ret.arg = 6
    /\ number = 3
    /\ ret.val = 3

====
